---- MODULE Spec2Model ----
(***************************************************************************)
(* Canister lifecycle control through the management canister              *)
(* (src/src/canister/management.rs): the eight lifecycle entry points of   *)
(* impl Canister<Management>, the payloads they encode, the two delivery   *)
(* paths (through a wallet, or straight to the management canister and     *)
(* then waiting for the call to complete), and the management canister     *)
(* as its doc comments describe it.                                        *)
(*                                                                         *)
(* Bytes are sequences of naturals.  An Option<T> is a sequence of length  *)
(* 0 (None) or 1 (Some).  A Principal is a natural: 0 is the management    *)
(* canister, 1.. are canisters.                                            *)
(***************************************************************************)
EXTENDS Naturals, Sequences, FiniteSets

\* ------------------------------------------------------------- bounds
\* Canisters the management canister can ever create.
MaxCanisters == 1
\* Poll results "still in flight" one waiter may see before the terminal one.
MaxPending == 2

\* ------------------------------------------------------ the data model
\* Principal::management_canister()
ManagementCanister == 0
\* Canister principals a caller may name; the management canister creates
\* canisters 1..MaxCanisters only, so a caller may name one that never exists.
Principals == {1, 2}
\* Wasm module images.
Bytecodes == {<<11>>, <<11, 12>>}
\* Initializer arguments as typed values (tuples of naturals).
InitArgs == {<<>>, <<5>>}
\* An initializer argument the encoder refuses.
Unencodable == <<255, 255>>
\* Cycle amounts a caller may pass to create_canister.
CycleAmounts == {0, 7}

\* ------------------------------------------------------------ the state
VARIABLES
    inv,          \* the operation in progress: entry point, inputs, position, result
    out,          \* the call it built: who dispatches, target, method, budget, argument
    handle,       \* the management canister's side of that call: status and reply
    polls,        \* status checks the waiter made for it
    pendings,     \* those that found it still in flight
    submissions,  \* calls the operation handed to the agent or to a wallet
    canisters,    \* the management canister's view of every canister
    prev          \* the operation before this one: what, on which canister, how it ended

vars == <<inv, out, handle, polls, pendings, submissions, canisters, prev>>

\* Records are written with their fields in one order throughout the module.
NoOut == [via |-> "none", target |-> ManagementCanister, method |-> "none",
          arg |-> <<>>, cycles |-> <<>>, schema |-> "none"]

NoHandle == [status |-> "none", reply |-> <<>>]

\* The parameters of an entry point; one that has no such parameter leaves it so.
NoInputs == [arg |-> <<>>, cycles |-> <<>>, canister_id |-> ManagementCanister,
             bytecode |-> <<>>, controllers |-> <<>>, is_provisional |-> FALSE]

Invocation(pc, fn, op, in, result) ==
    [arg |-> in.arg, cycles |-> in.cycles, canister_id |-> in.canister_id,
     bytecode |-> in.bytecode, controllers |-> in.controllers,
     is_provisional |-> in.is_provisional,
     pc |-> pc, fn |-> fn, op |-> op, result |-> result]

\* The operation before the one that starts now.
Ended == [canister_id |-> inv.canister_id, op |-> inv.op, kind |-> inv.result.kind]

\* What an entry point returns: Ok with the value, or the kind of error.
NoResult == [kind |-> "none", value |-> <<>>]

Ok(value) == [kind |-> "Ok", value |-> value]

Err(kind) == [kind |-> kind, value |-> <<>>]

\* enum InstallMode, by the tag the encoding carries.
Install == 0
Reinstall == 1
Upgrade == 2
InstallModes == {Install, Reinstall, Upgrade}

\* Type tags of the encoding: the numbers stand for the type table entries, and
\* matter only in being distinct.
Magic == 68
TNat == 125
TPrincipal == 104
TRecordCanisterId == 108
TRecordInstall == 109
TRecordSettings == 110
TRecordProvisional == 111
TVecNat == 112

\* -------------------------------------------------- the encoding contract
\* A byte string prefixed by its length.
Blob(bytes) == <<Len(bytes)>> \o bytes

\* Option<candid::Nat>
OptNat(o) == IF o = <<>> THEN <<0>> ELSE <<1, o[1]>>

\* Option<Vec<Principal>>
OptPrincipals(o) == IF o = <<>> THEN <<0>> ELSE <<1>> \o Blob(o[1])

\* encode_args(arg): a tuple of values, each a nat.
encode_args(arg) == <<Magic, Len(arg)>> \o [i \in 1..Len(arg) |-> TNat] \o arg

\* Encode!(&arg) of one value, a vector of nats.
EncodeValue(arg) == <<Magic, 1, TVecNat>> \o Blob(arg)

\* Pre-encoded initializer arguments a caller may pass: encoded tuples, and other bytes.
RawArgs == {encode_args(a) : a \in InitArgs} \cup {<<9>>}

\* Whether encode_args(arg) / Encode!(&arg) returns Ok.
Encodable(arg) == arg # Unencodable

\* Encode!(&()) as the management canister replies it: no values.
EncodeUnit == <<Magic, 0>>

\* Encode!(&principal)
EncodePrincipal(p) == <<Magic, 1, TPrincipal, p>>

\* Encode!(&In { canister_id }); CreateResult { canister_id } has the same shape.
EncodeIn(canister_id) == <<Magic, 1, TRecordCanisterId, canister_id>>

\* Encode!(&install_args) of CanisterInstall { mode, canister_id, wasm_module, arg }
EncodeCanisterInstall(mode, canister_id, wasm_module, arg) ==
    <<Magic, 1, TRecordInstall, mode, canister_id>> \o Blob(wasm_module) \o Blob(arg)

\* The fields of CanisterSettings: controllers, then three absent numeric fields.
SettingsBody(controllers) == OptPrincipals(controllers) \o <<0, 0, 0>>

\* Encode!(&args) of CanisterSettings
EncodeCanisterSettings(controllers) ==
    <<Magic, 1, TRecordSettings>> \o SettingsBody(controllers)

\* Encode!(&args) of InProvisional { cycles, settings }
EncodeInProvisional(cycles, controllers) ==
    <<Magic, 1, TRecordProvisional>> \o OptNat(cycles) \o SettingsBody(controllers)

\* A decode failure.
DecodeError == [value |-> <<>>, ok |-> FALSE]

\* Decode!(&bytes, ()): no value on the wire decodes to unit.
DecodeUnit(bytes) ==
    IF Len(bytes) = 2 /\ bytes[1] = Magic /\ bytes[2] = 0
    THEN [value |-> <<>>, ok |-> TRUE]
    ELSE DecodeError

\* Decode!(&bytes, Principal)
DecodePrincipal(bytes) ==
    IF Len(bytes) = 4 /\ bytes[1] = Magic /\ bytes[2] = 1 /\ bytes[3] = TPrincipal
    THEN [value |-> <<bytes[4]>>, ok |-> TRUE]
    ELSE DecodeError

\* Decode!(&bytes, CreateResult), and In as the management canister reads it.
DecodeCanisterId(bytes) ==
    IF Len(bytes) = 4 /\ bytes[1] = Magic /\ bytes[2] = 1 /\ bytes[3] = TRecordCanisterId
    THEN [value |-> <<bytes[4]>>, ok |-> TRUE]
    ELSE DecodeError

\* CanisterInstall as the management canister reads it: <<mode, canister_id>>.
DecodeCanisterInstall(bytes) ==
    IF /\ Len(bytes) >= 7
       /\ bytes[1] = Magic /\ bytes[2] = 1 /\ bytes[3] = TRecordInstall
       /\ bytes[4] \in InstallModes
       /\ Len(bytes) >= 7 + bytes[6]
       /\ Len(bytes) = 7 + bytes[6] + bytes[7 + bytes[6]]
    THEN [value |-> <<bytes[4], bytes[5]>>, ok |-> TRUE]
    ELSE DecodeError

\* Decode!(&result, Out) for the result schemas the operations name.
Decode(bytes, schema) ==
    CASE schema = "unit" -> DecodeUnit(bytes)
      [] schema = "principal" -> DecodePrincipal(bytes)
      [] schema = "create_result" -> DecodeCanisterId(bytes)
      [] OTHER -> [value |-> <<>>, ok |-> TRUE]


\* ------------------------------------------------------ call dispatcher
\* Canister::update_raw(method, Some(arg)): an update call to self.principal().
update_raw(fn_name, arg) ==
    [target |-> ManagementCanister, method |-> fn_name, arg |-> arg]

\* Canister::update(method, Some(arg)), given an already encoded argument.
update(fn_name, arg) ==
    [target |-> ManagementCanister, method |-> fn_name, arg |-> arg]

\* wallet.call_forward(call, cycles): the descriptor handed to the wallet.
call_forward(call, cycles, Out) ==
    [via |-> "wallet", target |-> call.target, method |-> call.method,
     arg |-> call.arg, cycles |-> <<cycles>>, schema |-> Out]

\* builder.call_and_wait(get_waiter()): the call handed to the agent; Out names
\* what the operation decodes the returned bytes as ("none": it drops them).
call_and_wait(call, Out) ==
    [via |-> "agent", target |-> call.target, method |-> call.method,
     arg |-> call.arg, cycles |-> <<>>, schema |-> Out]

\* through_wallet_call with a budget of its own instead of the one it is given.
through_wallet_call_funded(fn_name, cycles, arg, Out) ==
    call_forward(update_raw(fn_name, arg), 1, Out)

\* through_wallet_call::<Out>(wallet, fn_name, cycles, Some(arg))
through_wallet_call(fn_name, cycles, arg, Out) ==
    call_forward(update_raw(fn_name, arg), cycles, Out)

\* ---------------------------------------- the calls the entry points build
install_code(canister_id, bytecode, arg) ==
    through_wallet_call("install_code", 0,
        EncodeCanisterInstall(Install, canister_id, bytecode, encode_args(arg)),
        "unit")

\* install_code_directly_raw_args with wasm_module and arg interchanged.
install_code_directly_swapped(canister_id, bytecode, arg_raw) ==
    call_and_wait(
        update_raw("install_code",
            EncodeCanisterInstall(Install, canister_id, arg_raw, bytecode)),
        "none")

install_code_directly_raw_args(canister_id, bytecode, arg_raw) ==
    call_and_wait(
        update_raw("install_code",
            EncodeCanisterInstall(Install, canister_id, bytecode, arg_raw)),
        "none")

\* create_canister sending the cycles in both branches.
create_canister_with_cycles(cycles, controllers, is_provisional) ==
    call_and_wait(
        [target |-> ManagementCanister,
         method |-> IF is_provisional THEN "provisional_create_canister_with_cycles"
                    ELSE "create_canister",
         arg |-> EncodeInProvisional(cycles, controllers)],
        "create_result")

create_canister(cycles, controllers, is_provisional) ==
    IF is_provisional
    THEN call_and_wait(
             [target |-> ManagementCanister,
              method |-> "provisional_create_canister_with_cycles",
              arg |-> EncodeInProvisional(cycles, controllers)],
             "create_result")
    ELSE call_and_wait(
             [target |-> ManagementCanister,
              method |-> "create_canister",
              arg |-> EncodeCanisterSettings(controllers)],
             "create_result")

\* upgrade_code handed straight to the agent.
upgrade_code_directly(canister_id, bytecode, arg) ==
    call_and_wait(
        update_raw("upgrade_code",
            EncodeCanisterInstall(Upgrade, canister_id, bytecode, EncodeValue(arg))),
        "none")

\* upgrade_code decoding its result as unit.
upgrade_code_unit(canister_id, bytecode, arg) ==
    through_wallet_call("upgrade_code", 0,
        EncodeCanisterInstall(Upgrade, canister_id, bytecode, EncodeValue(arg)),
        "unit")

upgrade_code(canister_id, bytecode, arg) ==
    through_wallet_call("upgrade_code", 0,
        EncodeCanisterInstall(Upgrade, canister_id, bytecode, EncodeValue(arg)),
        "principal")

stop_canister(canister_id) ==
    through_wallet_call("stop_canister", 0, EncodeIn(canister_id), "unit")

\* stop_canister_directly decoding the returned bytes as unit.
stop_canister_directly_decoding(canister_id) ==
    call_and_wait(update("stop_canister", EncodeIn(canister_id)), "unit")

stop_canister_directly(canister_id) ==
    call_and_wait(update("stop_canister", EncodeIn(canister_id)), "none")

delete_canister(canister_id) ==
    through_wallet_call("delete_canister", 0, EncodeIn(canister_id), "unit")

\* delete_canister_directly naming the stop method.
delete_canister_directly_stops(canister_id) ==
    call_and_wait(update("stop_canister", EncodeIn(canister_id)), "none")

delete_canister_directly(canister_id) ==
    call_and_wait(update("delete_canister", EncodeIn(canister_id)), "none")

\* Returned without the decode failure: success whatever the bytes.
ReturnedLenient(call, bytes) ==
    IF call.schema = "create_result" /\ Decode(bytes, call.schema).ok
    THEN Ok(Decode(bytes, call.schema).value)
    ELSE Ok(<<>>)

\* What an operation returns once its call's bytes are in hand: the decode the
\* call names and, of the decoded value, only create's canister_id.
Returned(call, bytes) ==
    IF call.schema = "none" THEN Ok(<<>>)
    ELSE IF ~Decode(bytes, call.schema).ok THEN Err("DecodeError")
    ELSE IF call.schema = "create_result" THEN Ok(Decode(bytes, call.schema).value)
    ELSE Ok(<<>>)

\* ------------------------------------------------ the management canister
CanisterIds == 1..MaxCanisters

Absent == [status |-> "absent", code |-> FALSE]

\* A canister that exists: created and not deleted.
Live(cs, p) == p \in DOMAIN cs /\ cs[p].status \in {"running", "stopped"}

\* The principal the next creation returns: the lowest never used.
Fresh(cs) ==
    {p \in DOMAIN cs : cs[p].status = "absent" /\ \A q \in DOMAIN cs : q < p => cs[q].status # "absent"}

Rejected(cs) == [canisters |-> cs, status |-> "rejected", reply |-> <<>>]

Completed(cs, reply) == [canisters |-> cs, status |-> "completed", reply |-> reply]

\* create_canister / provisional_create_canister_with_cycles: an empty, running canister.
ExecCreate(cs) ==
    IF Fresh(cs) = {} THEN {Rejected(cs)}
    ELSE {Completed([cs EXCEPT ![p] = [status |-> "running", code |-> FALSE]], EncodeIn(p)) :
            p \in Fresh(cs)}

\* install_code / upgrade_code by InstallMode: Install is an error on a canister
\* that holds code, Reinstall overwrites, Upgrade performs an upgrade step.
ExecInstall(cs, arg, reply) ==
    LET d == DecodeCanisterInstall(arg)
        mode == d.value[1]
        p == d.value[2]
        done == Completed([cs EXCEPT ![p].code = TRUE], reply)
    IN  IF ~d.ok THEN {Rejected(cs)}
        ELSE IF ~Live(cs, p) THEN {Rejected(cs)}
        ELSE IF mode = Install THEN (IF cs[p].code THEN {Rejected(cs)} ELSE {done})
        ELSE IF mode = Reinstall THEN {done}
        ELSE IF cs[p].code THEN {done}
        ELSE {Rejected(cs), done}

\* stop_canister: stops a running canister.
ExecStop(cs, arg) ==
    LET d == DecodeCanisterId(arg)
        p == d.value[1]
    IN  IF ~d.ok THEN {Rejected(cs)}
        ELSE IF ~Live(cs, p) THEN {Rejected(cs)}
        ELSE IF cs[p].status = "running"
             THEN {Completed([cs EXCEPT ![p].status = "stopped"], EncodeUnit)}
        ELSE {Rejected(cs), Completed(cs, EncodeUnit)}

\* delete_canister: the target canister can not be running.
ExecDelete(cs, arg) ==
    LET d == DecodeCanisterId(arg)
        p == d.value[1]
    IN  IF ~d.ok THEN {Rejected(cs)}
        ELSE IF ~Live(cs, p) THEN {Rejected(cs)}
        ELSE IF cs[p].status = "running" THEN {Rejected(cs)}
        ELSE {Completed([cs EXCEPT ![p] = [status |-> "deleted", code |-> FALSE]], EncodeUnit)}

\* What the management canister may do with a call: the canisters after it, the
\* call's terminal status, and the reply the method's schema gives.
Execute(call, cs) ==
    CASE call.method \in {"create_canister", "provisional_create_canister_with_cycles"} ->
            ExecCreate(cs)
      [] call.method = "install_code" -> ExecInstall(cs, call.arg, EncodeUnit)
      [] call.method = "upgrade_code" ->
            ExecInstall(cs, call.arg,
                        EncodePrincipal(IF DecodeCanisterInstall(call.arg).ok
                                        THEN DecodeCanisterInstall(call.arg).value[2]
                                        ELSE ManagementCanister))
      [] call.method = "stop_canister" -> ExecStop(cs, call.arg)
      [] call.method = "delete_canister" -> ExecDelete(cs, call.arg)
      [] OTHER -> {Rejected(cs)}

\* Result bytes are the remote side's: the reply the schema gives, or bytes of
\* another shape (unit, a bare principal, a reply cut short).
Replies(reply) ==
    {reply, EncodeUnit, SubSeq(reply, 1, Len(reply) - 1)}
        \cup {EncodePrincipal(p) : p \in Principals}

Outcomes(call, cs) ==
    UNION {IF e.status = "completed"
           THEN {[e EXCEPT !.reply = r] : r \in Replies(e.reply)}
           ELSE {e} : e \in Execute(call, cs)}

\* ------------------------------------------------------- the operations
Init ==
    /\ inv = Invocation("ready", "none", "none", NoInputs, NoResult)
    /\ out = NoOut
    /\ handle = NoHandle
    /\ polls = 0
    /\ pendings = 0
    /\ submissions = 0
    /\ canisters = [p \in CanisterIds |-> Absent]
    /\ prev = [canister_id |-> ManagementCanister, op |-> "none", kind |-> "none"]

\* An entry point runs up to its first await: it encodes its argument (an
\* encoding failure returns at once), builds the call and hands it to the wallet
\* or to the agent, whose submission may fail.
Start(fn, op, in, encoded, call) ==
    /\ inv.pc \in {"ready", "done"}
    /\ prev' = Ended
    /\ handle' = NoHandle
    /\ polls' = 0
    /\ pendings' = 0
    /\ UNCHANGED canisters
    /\ IF ~encoded
       THEN /\ inv' = Invocation("done", fn, op, in, Err("EncodingError"))
            /\ out' = NoOut
            /\ submissions' = 0
       ELSE /\ out' = call
            /\ submissions' = 1
            /\ IF call.via = "wallet"
               THEN inv' = Invocation("forwarding", fn, op, in, NoResult)
               ELSE \/ inv' = Invocation("waiting", fn, op, in, NoResult)
                    \/ inv' = Invocation("done", fn, op, in, Err("TransportError"))

InstallCode ==
    \E canister_id \in Principals, bytecode \in Bytecodes, arg \in InitArgs \cup {Unencodable} :
        Start("install_code", "install",
              [NoInputs EXCEPT !.canister_id = canister_id, !.bytecode = bytecode, !.arg = arg],
              Encodable(arg), install_code(canister_id, bytecode, arg))

InstallCodeDirectlyRawArgs ==
    \E canister_id \in Principals, bytecode \in Bytecodes, arg_raw \in RawArgs :
        Start("install_code_directly_raw_args", "install",
              [NoInputs EXCEPT !.canister_id = canister_id, !.bytecode = bytecode, !.arg = arg_raw],
              TRUE, install_code_directly_raw_args(canister_id, bytecode, arg_raw))

CreateCanister ==
    \E cycles \in {<<>>} \cup {<<c>> : c \in CycleAmounts},
       controllers \in {<<>>, << <<1>> >>},
       is_provisional \in BOOLEAN :
        Start("create_canister", "create",
              [NoInputs EXCEPT !.cycles = cycles, !.controllers = controllers,
                               !.is_provisional = is_provisional],
              TRUE, create_canister(cycles, controllers, is_provisional))

UpgradeCode ==
    \E canister_id \in Principals, bytecode \in Bytecodes, arg \in InitArgs \cup {Unencodable} :
        Start("upgrade_code", "upgrade",
              [NoInputs EXCEPT !.canister_id = canister_id, !.bytecode = bytecode, !.arg = arg],
              Encodable(arg), upgrade_code(canister_id, bytecode, arg))

StopCanister ==
    \E canister_id \in Principals :
        Start("stop_canister", "stop", [NoInputs EXCEPT !.canister_id = canister_id],
              TRUE, stop_canister(canister_id))

StopCanisterDirectly ==
    \E canister_id \in Principals :
        Start("stop_canister_directly", "stop", [NoInputs EXCEPT !.canister_id = canister_id],
              TRUE, stop_canister_directly(canister_id))

DeleteCanister ==
    \E canister_id \in Principals :
        Start("delete_canister", "delete", [NoInputs EXCEPT !.canister_id = canister_id],
              TRUE, delete_canister(canister_id))

DeleteCanisterDirectly ==
    \E canister_id \in Principals :
        Start("delete_canister_directly", "delete", [NoInputs EXCEPT !.canister_id = canister_id],
              TRUE, delete_canister_directly(canister_id))

\* The entry points of impl Canister<Management>.
Invoke ==
    \/ InstallCode
    \/ InstallCodeDirectlyRawArgs
    \/ CreateCanister
    \/ UpgradeCode
    \/ StopCanister
    \/ StopCanisterDirectly
    \/ DeleteCanister
    \/ DeleteCanisterDirectly

\* wallet.call_forward(call, cycles).await? and the decode after it: the wallet
\* refuses, or runs the call and hands back its rejection or its result bytes.
ThroughWalletCallReturn ==
    /\ inv.pc = "forwarding"
    /\ UNCHANGED <<out, polls, pendings, submissions, prev>>
    /\ \/ /\ inv' = [inv EXCEPT !.pc = "done", !.result = Err("ForwardingError")]
          /\ UNCHANGED <<handle, canisters>>
       \/ \E e \in Outcomes(out, canisters) :
            /\ canisters' = e.canisters
            /\ handle' = [status |-> e.status, reply |-> e.reply]
            /\ inv' = [inv EXCEPT !.pc = "done",
                                  !.result = IF e.status = "rejected"
                                             THEN Err("RemoteRejection")
                                             ELSE Returned(out, e.reply)]

\* The agent accepted the call: its handle is pending until the management
\* canister has run it.
Submitted == inv.pc = "waiting" /\ handle.status = "none"

PlatformExecute ==
    /\ Submitted
    /\ \E e \in Outcomes(out, canisters) :
        /\ canisters' = e.canisters
        /\ handle' = [status |-> e.status, reply |-> e.reply]
    /\ UNCHANGED <<inv, out, polls, pendings, submissions, prev>>

\* Poll checking the status once more after the terminal one.
PollOnceMore ==
    /\ inv.pc = "waiting"
    /\ UNCHANGED <<out, handle, submissions, canisters, prev>>
    /\ \/ /\ handle.status = "none"
          /\ pendings < MaxPending
          /\ polls' = polls + 1
          /\ pendings' = pendings + 1
          /\ UNCHANGED inv
       \/ /\ handle.status = "completed"
          /\ polls' = polls + 2
          /\ inv' = [inv EXCEPT !.pc = "done", !.result = Returned(out, handle.reply)]
          /\ UNCHANGED pendings
       \/ /\ handle.status = "rejected"
          /\ polls' = polls + 2
          /\ inv' = [inv EXCEPT !.pc = "done", !.result = Err("RemoteRejection")]
          /\ UNCHANGED pendings

\* One status check of call_and_wait(get_waiter()): still in flight and the
\* waiter waits, or terminal and the operation goes on with the bytes or the
\* rejection.
Poll ==
    /\ inv.pc = "waiting"
    /\ polls' = polls + 1
    /\ UNCHANGED <<out, handle, submissions, canisters, prev>>
    /\ \/ /\ handle.status = "none"
          /\ pendings < MaxPending
          /\ pendings' = pendings + 1
          /\ UNCHANGED inv
       \/ /\ handle.status = "completed"
          /\ inv' = [inv EXCEPT !.pc = "done", !.result = Returned(out, handle.reply)]
          /\ UNCHANGED pendings
       \/ /\ handle.status = "rejected"
          /\ inv' = [inv EXCEPT !.pc = "done", !.result = Err("RemoteRejection")]
          /\ UNCHANGED pendings

Next ==
    \/ Invoke
    \/ ThroughWalletCallReturn
    \/ PlatformExecute
    \/ Poll

Spec == Init /\ [][Next]_vars

\* ------------------------------------------------------------ the claims
Done == inv.pc = "done"

SameCall(a, b) == a.arg = b.arg /\ a.method = b.method /\ a.target = b.target

\* C1: for install (with the same pre-encoded initializer argument), stop and
\* delete, the call the forwarded entry point hands to the wallet and the call
\* the direct entry point hands to the agent carry the same argument bytes, the
\* same method and the same target, for every canister_id, module and argument.
C1_SamePayloadBothPaths ==
    /\ (inv.fn = "install_code" /\ out.via # "none") =>
          SameCall(out, install_code_directly_raw_args(inv.canister_id, inv.bytecode,
                                                       encode_args(inv.arg)))
    /\ (inv.fn = "install_code_directly_raw_args") =>
          \A a \in InitArgs :
              encode_args(a) = inv.arg =>
                  SameCall(out, install_code(inv.canister_id, inv.bytecode, a))
    /\ (inv.fn = "stop_canister") => SameCall(out, stop_canister_directly(inv.canister_id))
    /\ (inv.fn = "stop_canister_directly") => SameCall(out, stop_canister(inv.canister_id))
    /\ (inv.fn = "delete_canister") => SameCall(out, delete_canister_directly(inv.canister_id))
    /\ (inv.fn = "delete_canister_directly") => SameCall(out, delete_canister(inv.canister_id))
    /\ (inv.op \in {"install", "stop", "delete"} /\ out.via # "none") =>
          out.via = (IF inv.fn \in {"install_code", "stop_canister", "delete_canister"}
                     THEN "wallet" ELSE "agent")

\* A direct install of a two-byte module with an encoded one-value argument,
\* right after an install on the same canister.
C1_Witness ==
    /\ inv.fn = "install_code_directly_raw_args"
    /\ inv.arg = encode_args(<<5>>)
    /\ inv.bytecode = <<11, 12>>
    /\ out.via = "agent"
    /\ prev.op = "install"
    /\ prev.canister_id = inv.canister_id

\* C2: a waiter whose status checks find the call in flight k times and then
\* terminal has made exactly k + 1 checks once the operation has its result, and
\* none before the call was submitted or after the terminal one; a completed
\* create returns the canister_id held in exactly the bytes the call completed with.
C2_WaiterPollsOncePerStatus ==
    /\ inv.pc = "waiting" => polls = pendings
    /\ (Done /\ handle.status \in {"completed", "rejected"} /\ out.via = "agent") =>
          polls = pendings + 1
    /\ (Done /\ handle.status = "none") => polls = 0
    /\ (Done /\ inv.op = "create" /\ inv.result.kind = "Ok") =>
          /\ handle.status = "completed"
          /\ handle.reply = <<Magic, 1, TRecordCanisterId, inv.result.value[1]>>

\* Pending, Pending, Completed(bytes): a create that returned after three polls.
C2_Witness ==
    /\ Done
    /\ inv.op = "create"
    /\ inv.result.kind = "Ok"
    /\ pendings = 2
    /\ polls = 3

\* The first failure an operation met, read off the call it built and the
\* status and reply that call ended with.
FirstFailure ==
    IF out.via = "none" THEN "EncodingError"
    ELSE IF handle.status = "none"
         THEN (IF out.via = "wallet" THEN "ForwardingError" ELSE "TransportError")
    ELSE IF handle.status = "rejected" THEN "RemoteRejection"
    ELSE IF out.via = "wallet" /\ inv.op = "upgrade" /\ ~DecodePrincipal(handle.reply).ok
         THEN "DecodeError"
    ELSE IF out.via = "wallet" /\ inv.op # "upgrade" /\ ~DecodeUnit(handle.reply).ok
         THEN "DecodeError"
    ELSE IF inv.op = "create" /\ ~DecodeCanisterId(handle.reply).ok THEN "DecodeError"
    ELSE "Ok"

\* C3: one invocation hands at most one call to the agent or a wallet, and it
\* returns the first failure it met (encoding, transport, forwarding, remote
\* rejection, decoding) as that failure: never success after a failure, and no
\* second submission.
C3_FirstFailureSurfacesNoRetry ==
    /\ submissions <= 1
    /\ (out.via = "none") = (submissions = 0)
    /\ Done => inv.result.kind = FirstFailure
    /\ (Done /\ FirstFailure # "Ok") => inv.result.value = <<>>

\* A direct delete the management canister rejected.
C3_Witness ==
    /\ Done
    /\ inv.fn = "delete_canister_directly"
    /\ handle.status = "rejected"
    /\ inv.result.kind = "RemoteRejection"
    /\ submissions = 1

\* Whether the core offers operation op delivered by via, when it is free to
\* take an operation.
Offered(op, via) == ENABLED (Invoke /\ inv'.op = op /\ out'.via = via)

\* C4 as stated: install, upgrade, stop and delete each have a forwarded and a
\* direct variant, and create is direct only.
C4_EveryOperationBothPaths ==
    inv.pc = "ready" =>
        /\ \A op \in {"install", "upgrade", "stop", "delete"} :
              Offered(op, "wallet") /\ Offered(op, "agent")
        /\ Offered("create", "agent") /\ ~Offered("create", "wallet")

\* C4 amended: install, stop and delete each have a forwarded and a direct
\* variant; upgrade is forwarded only and create is direct only.
C4_UpgradeForwardedOnly ==
    /\ inv.pc = "ready" =>
          /\ \A op \in {"install", "stop", "delete"} :
                Offered(op, "wallet") /\ Offered(op, "agent")
          /\ Offered("upgrade", "wallet") /\ ~Offered("upgrade", "agent")
          /\ Offered("create", "agent") /\ ~Offered("create", "wallet")
    /\ inv.op = "upgrade" => out.via \in {"none", "wallet"}
    /\ inv.op = "create" => out.via = "agent"

\* An upgrade through the wallet that succeeded, after a create.
C4_Witness ==
    /\ Done
    /\ inv.op = "upgrade"
    /\ out.via = "wallet"
    /\ inv.result.kind = "Ok"
    /\ prev.op = "create"

\* C5 as stated: a successful upgrade returns to the caller the Principal
\* decoded from the reply, which equals the canister_id given as input.
C5_UpgradeReturnsPrincipal ==
    (Done /\ inv.op = "upgrade" /\ inv.result.kind = "Ok") =>
        /\ inv.result.value = DecodePrincipal(handle.reply).value
        /\ inv.result.value = <<inv.canister_id>>

\* C5 amended: upgrade sends a CanisterInstall with mode Upgrade for the given
\* canister to method upgrade_code; it succeeds only if the reply decodes as a
\* Principal, and then returns unit: the decoded Principal is dropped.
C5_UpgradeReturnsUnit ==
    /\ (inv.op = "upgrade" /\ out.via # "none") =>
          /\ out.method = "upgrade_code"
          /\ DecodeCanisterInstall(out.arg).ok
          /\ DecodeCanisterInstall(out.arg).value = <<Upgrade, inv.canister_id>>
    /\ (Done /\ inv.op = "upgrade" /\ inv.result.kind = "Ok") =>
          /\ DecodePrincipal(handle.reply).ok
          /\ inv.result.value = <<>>

\* A successful upgrade of canister 1 whose reply held another principal.
C5_Witness ==
    /\ Done
    /\ inv.op = "upgrade"
    /\ inv.result.kind = "Ok"
    /\ inv.canister_id = 1
    /\ handle.reply = <<Magic, 1, TPrincipal, 2>>

\* C6: every descriptor handed to a wallet carries a cycle budget of zero.
C6_ForwardedBudgetZero ==
    out.via = "wallet" =>
        /\ out.cycles = <<0>>
        /\ inv.op \in {"install", "upgrade", "stop", "delete"}

\* A forwarded install the wallet has run.
C6_Witness ==
    /\ Done
    /\ inv.fn = "install_code"
    /\ out.via = "wallet"
    /\ handle.status = "completed"

\* C7: a create with is_provisional = false and no controllers goes to method
\* create_canister with the settings alone (controllers and the three numeric
\* fields absent) and no cycles, whatever the cycles parameter is.
C7_MeteredCreateCarriesNoCycles ==
    (inv.op = "create" /\ ~inv.is_provisional /\ inv.controllers = <<>>) =>
        /\ out.via = "agent"
        /\ out.method = "create_canister"
        /\ out.cycles = <<>>
        /\ out.arg = <<Magic, 1, TRecordSettings, 0, 0, 0, 0>>

\* Such a create, called with cycles = Some(7), submitted.
C7_Witness ==
    /\ inv.op = "create"
    /\ ~inv.is_provisional
    /\ inv.controllers = <<>>
    /\ inv.cycles = <<7>>
    /\ handle.status = "completed"

\* The management canister runs the call in this step.
Executes(method) ==
    /\ handle.status = "none"
    /\ handle'.status # "none"
    /\ out.method = method

\* The operation got its call to the management canister.
Executed == handle.status # "none"

\* The operation returned success, or failed only to decode a completed call's reply.
Succeeded ==
    /\ handle.status = "completed"
    /\ (out.via = "agent" \/ DecodeUnit(handle.reply).ok) => inv.result.kind = "Ok"

\* C8: a delete that reaches the management canister while the target is running
\* is rejected, leaves every canister as it was and ends in RemoteRejection; a
\* stop of a running canister completes; and a delete that follows a successful
\* stop of the same canister completes too, and the canister is gone.
C8_DeleteNeedsStop ==
    /\ [][(Executes("delete_canister") /\ Live(canisters, inv.canister_id)
             /\ inv.canister_id \in CanisterIds
             /\ canisters[inv.canister_id].status = "running")
          => (handle'.status = "rejected" /\ canisters' = canisters)]_vars
    /\ [][(Executes("stop_canister") /\ Live(canisters, inv.canister_id)
             /\ inv.canister_id \in CanisterIds
             /\ canisters[inv.canister_id].status = "running")
          => (handle'.status = "completed"
              /\ canisters' = [canisters EXCEPT ![inv.canister_id].status = "stopped"])]_vars
    /\ []((Done /\ inv.op \in {"stop", "delete"} /\ handle.status = "rejected")
            => inv.result.kind = "RemoteRejection")
    /\ []((Done /\ inv.op = "stop" /\ inv.result.kind = "Ok")
            => (Live(canisters, inv.canister_id)
                /\ canisters[inv.canister_id].status = "stopped"))
    /\ []((Done /\ inv.op = "delete" /\ Executed
             /\ prev.op = "stop" /\ prev.kind = "Ok" /\ prev.canister_id = inv.canister_id)
            => (Succeeded /\ canisters[inv.canister_id].status = "deleted"))

\* A stop and then a delete of the same canister, both returning success.
C8_Witness ==
    /\ Done
    /\ inv.op = "delete"
    /\ inv.result.kind = "Ok"
    /\ prev.op = "stop"
    /\ prev.kind = "Ok"
    /\ prev.canister_id = inv.canister_id
    /\ canisters[inv.canister_id].status = "deleted"

\* C9: on a canister that holds code after a first install, and after a second
\* install with mode Install was rejected, an install with mode Reinstall
\* reaches the management canister and succeeds.
C9_ReinstallAfterRejectedInstall ==
    (/\ Done
     /\ inv.op = "install"
     /\ Executed
     /\ Live(canisters, inv.canister_id)
     /\ prev.op = "install"
     /\ prev.kind = "RemoteRejection"
     /\ prev.canister_id = inv.canister_id)
    => /\ DecodeCanisterInstall(out.arg).value[1] = Reinstall
       /\ Succeeded

\* C10: a direct install, stop or delete returns success whenever its call
\* completed, whatever the reply bytes; a forwarded operation returns success
\* only if the reply also decodes (as unit; as a Principal for upgrade), and
\* returns a decode failure when the call completed with other bytes.
C10_OnlyForwardedDecodes ==
    /\ (Done /\ out.via = "agent" /\ inv.op \in {"install", "stop", "delete"}) =>
          /\ handle.status = "completed" => inv.result.kind = "Ok"
          /\ inv.result.kind # "DecodeError"
    /\ (Done /\ out.via = "wallet" /\ inv.result.kind = "Ok") =>
          /\ handle.status = "completed"
          /\ inv.op = "upgrade" => DecodePrincipal(handle.reply).ok
          /\ inv.op \in {"install", "stop", "delete"} => DecodeUnit(handle.reply).ok
    /\ (Done /\ out.via = "wallet" /\ handle.status = "completed") =>
          inv.result.kind \in {"Ok", "DecodeError"}
    /\ (Done /\ inv.result.kind = "DecodeError") => handle.status = "completed"

\* A forwarded stop that stopped canister 1 and returned a decode failure.
C10_Witness ==
    /\ Done
    /\ inv.fn = "stop_canister"
    /\ inv.canister_id = 1
    /\ inv.result.kind = "DecodeError"
    /\ handle.status = "completed"
    /\ canisters[1].status = "stopped"
====
